---- MODULE Spec2Model ----
(***************************************************************************)
(* A model of the Session and ScriptOptions wrappers of frida-go.          *)
(*                                                                         *)
(* Two state machines share the module.                                    *)
(*   SpecDetach / FairDetach : Session.DetachCtx, its goroutine, the       *)
(*       context and the Cancellable token, under every interleaving.      *)
(*   Spec : one caller driving a Session and one caller-owned              *)
(*       ScriptOptions through the script, compile, snapshot, portal and   *)
(*       lifecycle calls, with the reference count of the options handle.  *)
(* The native engine is an opaque service: every native call may succeed   *)
(* or report a GError.                                                     *)
(***************************************************************************)
EXTENDS Integers, Sequences, FiniteSets, TLC

\* ------------------------------------------------------------- bounds
\* Number of DetachCtx calls the caller makes on the session.
MaxCalls == 2
\* Longest script name (in bytes) the caller passes.
MaxNameLen == 2
\* Longest snapshot blob (in bytes) the caller passes.
MaxSnapLen == 1
\* Number of times the caller hands its ScriptOptions to a consuming call.
MaxUses == 2

Calls == 1..MaxCalls

VARIABLES
    \* ---- Session
    detached,      \* the native session's detached flag (frida_session_is_detached)
    \* ---- DetachCtx, one entry per call
    cur,           \* number of DetachCtx calls started so far
    pcMain,        \* the caller: "idle" (outside DetachCtx) or "select" (in the for/select)
    pcGo,          \* the goroutine of each call: "none", "start", "inDetach", "afterDetach", "exited"
    ctxDone,       \* ctx.Done() of each call's context is closed
    expiredEarly,  \* history: the context expired while Detach had not yet completed
    tok,           \* the Cancellable c of each call: [cancelled, unrefs]
    done,          \* channel done (capacity 1)
    errC,          \* channel errC (capacity 1)
    derr,          \* the goroutine's local err, the result of s.Detach
    ret,           \* what DetachCtx returned: "running" until it returns
    \* ---- the caller-owned ScriptOptions and the last call's observable result
    optState,      \* "absent" (not constructed), "live", "released" (handle unref'd to zero)
    optName,       \* the native name field (a C string)
    given,         \* history: the Go values last given to the setters [name, snapshot, transport]
    optSnapshot,   \* the native snapshot blob; <<-1>> while unset
    optTransport,  \* the native snapshot transport
    optRuntime,    \* the native runtime
    optUnrefs,     \* number of times the handle was released (clean(..., unrefFrida))
    staleUse,      \* history: a released handle was read, written or passed to a native call
    last           \* the last call: what it handed to the engine and what it returned

sessVars == <<detached>>
detachVars == <<cur, pcMain, pcGo, ctxDone, expiredEarly, tok, done, errC, derr, ret>>
optVars == <<optState, optName, given, optSnapshot, optTransport, optRuntime,
             optUnrefs, staleUse, last>>
vars == <<detached, cur, pcMain, pcGo, ctxDone, expiredEarly, tok, done, errC, derr, ret,
          optState, optName, given, optSnapshot, optTransport, optRuntime,
          optUnrefs, staleUse, last>>

\* ------------------------------------------------------------- errors
\* A nil error.
NilErr == "nil"
\* handleGError: nil for a NULL GError, otherwise the wrapped native error.
handleGError(e) == IF e = "NULL" THEN NilErr ELSE "FridaError:" \o e
\* The sentinel DetachCtx returns when the context wins the select.
ErrContextCancelled == "ErrContextCancelled"
\* What a native *_sync call may leave in its GError out-parameter.
NativeErrs == {"NULL", "failed"}
\* frida_session_detach_sync with a cancellable: as any native call, and once
\* the cancellable is cancelled it may also report G_IO_ERROR_CANCELLED.
DetachErrs(cancelled) == NativeErrs \cup (IF cancelled THEN {"cancelled"} ELSE {})

\* ------------------------------------------------------------- strings and blobs
\* The bytes a Go string or a blob is made of here: NUL and the letter a.
Bytes == {0, 97}

\* All sequences over S of length at most n.
SeqUpTo(S, n) == UNION {[1..k -> S] : k \in 0..n}

\* The names the caller passes (Go strings may hold any byte, NUL included).
GoNames == SeqUpTo(Bytes, MaxNameLen)

\* The snapshot blobs the caller passes.
Snapshots == SeqUpTo(Bytes, MaxSnapLen)

\* The snapshot transports and the script runtimes.
Transports == {0, 1}
Runtimes == {0, 1}

\* "frida-go", the name substituted for a missing or empty one.
DefaultName == <<102, 114, 105, 100, 97, 45, 103, 111>>

\* Index of the first NUL of s, Len(s) + 1 when it has none.
FirstNul(s) ==
    IF \E i \in 1..Len(s) : s[i] = 0
      THEN CHOOSE i \in 1..Len(s) : s[i] = 0 /\ \A j \in 1..(i - 1) : s[j] # 0
      ELSE Len(s) + 1

\* C.CString: the bytes of the Go string followed by a NUL; as a C string it
\* ends at its first NUL.
CString(s) == SubSeq(s, 1, FirstNul(s) - 1)

\* C.GoString: the bytes of the C string up to its terminating NUL.
GoString(cs) == SubSeq(cs, 1, FirstNul(cs) - 1)

\* goBytesToGBytes / getGBytes: a GBytes carries its length, and the blob is
\* copied byte for byte in both directions.
goBytesToGBytes(b) == b
getGBytes(g) == g

\* The C strings a name field can hold.
CNames == {CString(n) : n \in GoNames} \cup {CString(DefaultName)}

\* ------------------------------------------------------------- results
\* The record of a call: the name it handed to the engine, the value and the
\* error it returned, whether it used a released options handle, and for a
\* getter what it returned and what the last setter was given.
Obs(op, name, val, err, stale, got, want) ==
    [op |-> op, name |-> name, val |-> val, err |-> err, stale |-> stale,
     got |-> got, want |-> want]

\* A call that hands no name to the engine and is no getter.
Plain(op, val, err) == Obs(op, <<>>, val, err, FALSE, <<>>, <<>>)

\* &Script{sc: sc} and &PortalMembership{mem}: a pointer to a fresh wrapper,
\* non-nil whatever the native call reported.
WrapperValue(e) == "nonnil"

\* CompileScript and SnapshotScript: nil on an error, the bytes otherwise.
BytesValue(e) == IF e # "NULL" THEN "nil" ELSE "nonnil"

\* ------------------------------------------------------------- ScriptOptions
\* NewScriptOptions(name): frida_script_options_new, then set_name.
NewScriptOptions(n) ==
    /\ optState = "absent"
    /\ optState' = "live"
    /\ optName' = CString(n)
    /\ given' = [given EXCEPT !.name = n]
    /\ UNCHANGED <<optSnapshot, optTransport, optRuntime, optUnrefs, staleUse, last>>
    /\ UNCHANGED <<detached>>
    /\ UNCHANGED detachVars

\* SetName(name)
SetName(n) ==
    /\ optState = "live"
    /\ optName' = CString(n)
    /\ given' = [given EXCEPT !.name = n]
    /\ UNCHANGED <<optState, optSnapshot, optTransport, optRuntime, optUnrefs, staleUse, last>>
    /\ UNCHANGED <<detached>>
    /\ UNCHANGED detachVars

\* SetSnapshot(value)
SetSnapshot(b) ==
    /\ optState = "live"
    /\ optSnapshot' = goBytesToGBytes(b)
    /\ given' = [given EXCEPT !.snapshot = b]
    /\ UNCHANGED <<optState, optName, optTransport, optRuntime, optUnrefs, staleUse, last>>
    /\ UNCHANGED <<detached>>
    /\ UNCHANGED detachVars

\* SetSnapshotTransport(tr): the argument is cast to FridaSnapshotTransport.
SetSnapshotTransport(tr) ==
    /\ optState = "live"
    /\ optTransport' = tr
    /\ given' = [given EXCEPT !.transport = tr]
    /\ UNCHANGED <<optState, optName, optSnapshot, optRuntime, optUnrefs, staleUse, last>>
    /\ UNCHANGED <<detached>>
    /\ UNCHANGED detachVars

\* SetRuntime(rt)
SetRuntime(rt) ==
    /\ optState = "live"
    /\ optRuntime' = rt
    /\ UNCHANGED <<optState, optName, given, optSnapshot, optTransport, optUnrefs, staleUse, last>>
    /\ UNCHANGED <<detached>>
    /\ UNCHANGED detachVars

\* What GetName returns.
NameRead == GoString(optName)

\* GetName()
GetName ==
    /\ optState = "live"
    /\ last' = Obs("GetName", <<>>, "none", NilErr, FALSE, NameRead, given.name)
    /\ UNCHANGED <<optState, optName, given, optSnapshot, optTransport, optRuntime,
                   optUnrefs, staleUse>>
    /\ UNCHANGED <<detached>>
    /\ UNCHANGED detachVars

\* GetSnapshot(), once a snapshot was set: the blob is copied out and the
\* reference the getter holds on it is dropped.
GetSnapshot ==
    /\ optState = "live"
    /\ optSnapshot # <<-1>>
    /\ last' = Obs("GetSnapshot", <<>>, "none", NilErr, FALSE,
                   getGBytes(optSnapshot), given.snapshot)
    /\ UNCHANGED <<optState, optName, given, optSnapshot, optTransport, optRuntime,
                   optUnrefs, staleUse>>
    /\ UNCHANGED <<detached>>
    /\ UNCHANGED detachVars

\* GetSnapshotTransport()
GetSnapshotTransport ==
    /\ optState = "live"
    /\ last' = Obs("GetSnapshotTransport", <<>>, "none", NilErr, FALSE,
                   <<optTransport>>, <<given.transport>>)
    /\ UNCHANGED <<optState, optName, given, optSnapshot, optTransport, optRuntime,
                   optUnrefs, staleUse>>
    /\ UNCHANGED <<detached>>
    /\ UNCHANGED detachVars

\* ------------------------------------------------------------- Session
\* IsDetached()
IsDetached == detached

\* What a read of the name through the caller's options handle may yield: the
\* name while the handle is live, any bytes once it was released.
HandleNames == IF optState = "live" THEN {optName} ELSE CNames

\* The common shape of CreateScriptWithOptions, CreateScriptBytes and
\* CompileScript.  own: the caller passes its ScriptOptions (otherwise nil, and
\* NewScriptOptions("frida-go") is used and released within the call).
\* fix: the call replaces an empty name by "frida-go" (lines 172-174).
\* e: what the native call reports; val: the value returned beside the error.
\* The deferred clean(opts.opts, unrefFrida) drops the handle's only reference.
UseOptions(op, own, fix, e, val) ==
    /\ IF ~own
         THEN /\ last' = Obs(op, CString(DefaultName), val, handleGError(e),
                             FALSE, <<>>, <<>>)
              /\ UNCHANGED <<optState, optName, given, optUnrefs, staleUse>>
         ELSE /\ optState # "absent"
              /\ optUnrefs < MaxUses
              /\ \E n \in HandleNames :
                    LET sub == fix /\ GoString(n) = <<>>
                        passed == IF sub THEN CString(DefaultName) ELSE n
                    IN  /\ optName' = IF optState = "live" THEN passed ELSE optName
                        /\ given' = IF optState = "live" /\ sub
                                      THEN [given EXCEPT !.name = DefaultName]
                                      ELSE given
                        /\ last' = Obs(op, passed, val, handleGError(e),
                                       optState = "released", <<>>, <<>>)
              /\ optState' = "released"
              /\ optUnrefs' = optUnrefs + 1
              /\ staleUse' = (staleUse \/ optState = "released")
    /\ UNCHANGED <<optSnapshot, optTransport, optRuntime>>
    /\ UNCHANGED <<detached>>
    /\ UNCHANGED detachVars

\* CreateScriptWithOptions(script, opts)
CreateScriptWithOptions(own) ==
    \E e \in NativeErrs :
        UseOptions("CreateScriptWithOptions", own, TRUE, e, WrapperValue(e))

\* CreateScript(script): CreateScriptWithOptions(script, nil).
CreateScript ==
    \E e \in NativeErrs : UseOptions("CreateScript", FALSE, TRUE, e, WrapperValue(e))

\* CreateScriptWithSnapshot(script, snapshot): a fresh NewScriptOptions("frida-go")
\* carrying the snapshot goes to CreateScriptWithOptions, which releases it.
CreateScriptWithSnapshot ==
    \E e \in NativeErrs :
        UseOptions("CreateScriptWithSnapshot", FALSE, TRUE, e, WrapperValue(e))

\* CreateScriptBytes(script, opts): no check of the name.
CreateScriptBytes(own) ==
    \E e \in NativeErrs :
        UseOptions("CreateScriptBytes", own, FALSE, e, WrapperValue(e))

\* CompileScript(script, opts)
CompileScript(own) ==
    \E e \in NativeErrs : UseOptions("CompileScript", own, FALSE, e, BytesValue(e))

\* A call that touches no ScriptOptions.
SessionCall(op, val, err, det) ==
    /\ last' = Plain(op, val, err)
    /\ detached' = det
    /\ UNCHANGED <<optState, optName, given, optSnapshot, optTransport, optRuntime,
                   optUnrefs, staleUse>>
    /\ UNCHANGED detachVars

\* SnapshotScript(embedScript, snapshotOpts)
SnapshotScript ==
    \E e \in NativeErrs :
        SessionCall("SnapshotScript", BytesValue(e), handleGError(e), detached)

\* JoinPortal(address, opts)
JoinPortal ==
    \E e \in NativeErrs :
        SessionCall("JoinPortal", WrapperValue(e), handleGError(e), detached)

\* Detach(): without a cancellable.
Detach ==
    \E e \in NativeErrs :
        SessionCall("Detach", "none", handleGError(e), detached \/ e = "NULL")

\* Resume()
Resume ==
    \E e \in NativeErrs : SessionCall("Resume", "none", handleGError(e), detached)

\* EnableChildGating()
EnableChildGating ==
    \E e \in NativeErrs :
        SessionCall("EnableChildGating", "none", handleGError(e), detached)

\* DisableChildGating()
DisableChildGating ==
    \E e \in NativeErrs :
        SessionCall("DisableChildGating", "none", handleGError(e), detached)

\* The caller asks IsDetached().
AskIsDetached ==
    SessionCall("IsDetached", IF IsDetached THEN "true" ELSE "false", NilErr, detached)

\* ------------------------------------------------------------- DetachCtx
NewCancellable == [cancelled |-> FALSE, unrefs |-> 0]

\* Cancellable.Cancel
Cancel(t) == [t EXCEPT !.cancelled = TRUE]

\* Cancellable.Unref
Unref(t) == [t EXCEPT !.unrefs = @ + 1]

\* Lines 61-72: the channels, the token and the goroutine are created and the
\* caller enters the select.  d: the context is already done at the call.
DetachCtxCall(c, d) ==
    /\ pcMain = "idle"
    /\ c = cur + 1
    /\ c \in Calls
    /\ cur' = c
    /\ pcMain' = "select"
    /\ done' = [done EXCEPT ![c] = <<>>]
    /\ errC' = [errC EXCEPT ![c] = <<>>]
    /\ tok' = [tok EXCEPT ![c] = NewCancellable]
    /\ pcGo' = [pcGo EXCEPT ![c] = "start"]
    /\ ctxDone' = [ctxDone EXCEPT ![c] = d]
    /\ expiredEarly' = [expiredEarly EXCEPT ![c] = d]
    /\ ret' = [ret EXCEPT ![c] = "running"]
    /\ UNCHANGED <<derr, detached>>
    /\ UNCHANGED optVars

\* The context of call c expires or is cancelled while DetachCtx is running.
CtxExpire(c) ==
    /\ pcMain = "select"
    /\ cur = c
    /\ ~ctxDone[c]
    /\ ctxDone' = [ctxDone EXCEPT ![c] = TRUE]
    /\ expiredEarly' = [expiredEarly EXCEPT ![c] = pcGo[c] \in {"start", "inDetach"}]
    /\ UNCHANGED <<cur, pcMain, pcGo, tok, done, errC, derr, ret, detached>>
    /\ UNCHANGED optVars

\* Line 66, the call: the goroutine enters s.Detach(WithCancel(c)).
GoDetachEnter(c) ==
    /\ pcGo[c] = "start"
    /\ pcGo' = [pcGo EXCEPT ![c] = "inDetach"]
    /\ UNCHANGED <<cur, pcMain, ctxDone, expiredEarly, tok, done, errC, derr, ret, detached>>
    /\ UNCHANGED optVars

\* Lines 66, 90-100: frida_session_detach_sync returns; err := handleGError(err).
GoDetachReturn(c) ==
    /\ pcGo[c] = "inDetach"
    /\ \E e \in DetachErrs(tok[c].cancelled) :
          /\ derr' = [derr EXCEPT ![c] = handleGError(e)]
          /\ detached' = (detached \/ e = "NULL")
    /\ pcGo' = [pcGo EXCEPT ![c] = "afterDetach"]
    /\ UNCHANGED <<cur, pcMain, ctxDone, expiredEarly, tok, done, errC, ret>>
    /\ UNCHANGED optVars

\* Lines 67-71: on an error the goroutine sends it on errC (capacity 1, never
\* full: this is its only sender) and returns; otherwise it receives from done,
\* which blocks while done is empty.
GoFinish(c) ==
    /\ pcGo[c] = "afterDetach"
    /\ IF derr[c] # NilErr
         THEN /\ Len(errC[c]) < 1
              /\ errC' = [errC EXCEPT ![c] = Append(@, derr[c])]
              /\ done' = done
         ELSE /\ Len(done[c]) > 0
              /\ done' = [done EXCEPT ![c] = Tail(@)]
              /\ errC' = errC
    /\ pcGo' = [pcGo EXCEPT ![c] = "exited"]
    /\ UNCHANGED <<cur, pcMain, ctxDone, expiredEarly, tok, derr, ret, detached>>
    /\ UNCHANGED optVars

\* The cases of the select (lines 75-85) that are ready.
SelectReady(c) ==
    (IF ctxDone[c] THEN {"ctx"} ELSE {})
      \cup (IF Len(done[c]) > 0 THEN {"done"} ELSE {})
      \cup (IF Len(errC[c]) > 0 THEN {"err"} ELSE {})

\* A select whose ctx case cancels the token and then also releases it.
SelectToken_CtxUnref(t, k) == IF k = "ctx" THEN Unref(Cancel(t)) ELSE Unref(t)

\* A select whose ctx case returns without cancelling the token.
SelectToken_NoCancel(t, k) == IF k = "ctx" THEN t ELSE Unref(t)

\* The token after the chosen case ran: Cancel on ctx.Done (line 77), Unref on
\* done and on errC (lines 80, 83).
SelectToken(t, k) == IF k = "ctx" THEN Cancel(t) ELSE Unref(t)

\* The value the chosen case returns.
SelectResult(c, k) ==
    CASE k = "ctx" -> ErrContextCancelled
      [] k = "done" -> NilErr
      [] k = "err" -> Head(errC[c])

\* Lines 74-86: the select takes one of the ready cases, chosen at random, and
\* DetachCtx returns.
Select(c) ==
    /\ pcMain = "select"
    /\ cur = c
    /\ \E k \in SelectReady(c) :
          /\ tok' = [tok EXCEPT ![c] = SelectToken(@, k)]
          /\ ret' = [ret EXCEPT ![c] = SelectResult(c, k)]
          /\ done' = [done EXCEPT ![c] = IF k = "done" THEN Tail(@) ELSE @]
          /\ errC' = [errC EXCEPT ![c] = IF k = "err" THEN Tail(@) ELSE @]
    /\ pcMain' = "idle"
    /\ UNCHANGED <<cur, pcGo, ctxDone, expiredEarly, derr, detached>>
    /\ UNCHANGED optVars

InitDetach ==
    /\ detached = FALSE
    /\ cur = 0
    /\ pcMain = "idle"
    /\ pcGo = [c \in Calls |-> "none"]
    /\ ctxDone = [c \in Calls |-> FALSE]
    /\ expiredEarly = [c \in Calls |-> FALSE]
    /\ tok = [c \in Calls |-> NewCancellable]
    /\ done = [c \in Calls |-> <<>>]
    /\ errC = [c \in Calls |-> <<>>]
    /\ derr = [c \in Calls |-> "unset"]
    /\ ret = [c \in Calls |-> "notcalled"]

InitOptions ==
    /\ optState = "absent"
    /\ optName = <<>>
    /\ given = [name |-> <<>>, snapshot |-> <<-1>>, transport |-> 0]
    /\ optSnapshot = <<-1>>
    /\ optTransport = 0
    /\ optRuntime = 0
    /\ optUnrefs = 0
    /\ staleUse = FALSE
    /\ last = [op |-> "none", name |-> <<>>, val |-> "none", err |-> "nil",
               stale |-> FALSE, got |-> <<>>, want |-> <<>>]

Init == InitDetach /\ InitOptions

NextDetach ==
    \E c \in Calls :
        \/ \E d \in BOOLEAN : DetachCtxCall(c, d)
        \/ CtxExpire(c)
        \/ GoDetachEnter(c)
        \/ GoDetachReturn(c)
        \/ GoFinish(c)
        \/ Select(c)

SpecDetach == Init /\ [][NextDetach]_vars

Next ==
    \/ \E n \in GoNames : NewScriptOptions(n)
    \/ \E n \in GoNames : SetName(n)
    \/ \E b \in Snapshots : SetSnapshot(b)
    \/ \E tr \in Transports : SetSnapshotTransport(tr)
    \/ \E rt \in Runtimes : SetRuntime(rt)
    \/ GetName
    \/ GetSnapshot
    \/ GetSnapshotTransport
    \/ CreateScript
    \/ \E own \in BOOLEAN : CreateScriptWithOptions(own)
    \/ CreateScriptWithSnapshot
    \/ \E own \in BOOLEAN : CreateScriptBytes(own)
    \/ \E own \in BOOLEAN : CompileScript(own)
    \/ SnapshotScript
    \/ JoinPortal
    \/ Detach
    \/ Resume
    \/ EnableChildGating
    \/ DisableChildGating
    \/ AskIsDetached

Spec == Init /\ [][Next]_vars

\* The goroutine steps and the select are scheduled by the Go runtime, and the
\* native detach call returns; a context need never expire.
FairDetach ==
    /\ SpecDetach
    /\ \A c \in Calls :
          /\ WF_vars(GoDetachEnter(c))
          /\ WF_vars(GoDetachReturn(c))
          /\ WF_vars(GoFinish(c))
          /\ WF_vars(Select(c))

\* ------------------------------------------------------------- DetachCtx: claims
\* DetachCtx of call c has returned.
Returned(c) == ret[c] \notin {"notcalled", "running"}

\* The select of call c fires in this step.
SelectStep(c) == pcMain = "select" /\ cur = c /\ pcMain' = "idle"

\* C1: when the context does not expire before Detach completes and Detach
\* succeeded, DetachCtx returns nil.
C1_SuccessReturnsNil ==
    \A c \in Calls :
        (Returned(c) /\ ~expiredEarly[c] /\ derr[c] = NilErr) => ret[c] = NilErr

\* C2: by the time DetachCtx has returned, its token was released exactly once.
C2_ReleasedExactlyOnce ==
    \A c \in Calls : Returned(c) => tok[c].unrefs = 1

C8_UnrefOnlyAfterDetach ==
    [][\A c \in Calls :
          tok'[c].unrefs > tok[c].unrefs => pcGo[c] \in {"afterDetach", "exited"}]_vars

\* A token was released: Detach failed and DetachCtx returned its error.
C8_Witness ==
    \E c \in Calls :
        /\ tok[c].unrefs = 1
        /\ pcGo[c] = "exited"
        /\ ret[c] = handleGError("failed")

\* C10: once Detach has returned, the goroutine of the call eventually exits.
C10_GoroutineExits ==
    \A c \in Calls : (pcGo[c] = "afterDetach") ~> (pcGo[c] = "exited")

\* ------------------------------------------------------------- Session: claims
\* The calls that create a script.
CreateOps ==
    {"CreateScript", "CreateScriptWithOptions", "CreateScriptWithSnapshot",
     "CreateScriptBytes"}

\* The calls that return a (value, error) pair.
PairOps == CreateOps \cup {"JoinPortal", "CompileScript", "SnapshotScript"}

\* The getters of ScriptOptions.
GetterOps == {"GetName", "GetSnapshot", "GetSnapshotTransport"}

\* C4: every script-creating call hands the engine options with a non-empty
\* name (calls on an already released handle set aside).
C4_CreatedNameNonEmpty ==
    (last.op \in CreateOps /\ ~last.stale) => last.name # <<>>

\* C5: a call that returns a (value, error) pair returns a nil value whenever
\* it returns a non-nil error.
C5_ValueXorError ==
    (last.op \in PairOps /\ last.err # NilErr) => last.val = "nil"

\* C7: a getter returns exactly the value given to the most recent
\* corresponding setter.
C7_GetterReturnsLastSet ==
    last.op \in GetterOps => last.got = last.want

\* C9: the native handle of the ScriptOptions is released at most once and is
\* never used after it was released.
C9_ReleasedOnceNeverUsedAfter ==
    optUnrefs <= 1 /\ ~staleUse

====
